---------------------------- MODULE Spec2Model ----------------------------
(***************************************************************************)
(* WavefrontDOTpy (src/WaveFrontDOTPy/Object.py): the line decoder         *)
(* `decode`, its lexer TokenConsumers, the value and face parsers of       *)
(* Parsers, and the encoder WaveObj.export.                                *)
(*                                                                         *)
(* A Python str is a sequence of one-character strings, so that slicing,   *)
(* find, strip, split and join are computed as Python computes them.  A    *)
(* float is a fixed-point integer counting units of 10^-FracDigits.        *)
(***************************************************************************)
EXTENDS Integers, Sequences, FiniteSets, TLC

(***************************************************************************)
(* Bounds of the model.                                                    *)
(***************************************************************************)
\* Longest input (in lines, after the comment/blank filter) under Spec.
MaxLines == 3
\* Longest input (in lines) under LineSpec, which draws from every line.
MaxProbeLines == 2
\* Decimal digits a float keeps (the model's stand-in for a double).
FracDigits == 7

\* floatBackDecAmount's default `amount`.
Decimals == 6

(***************************************************************************)
(* Python's str operations.                                                *)
(***************************************************************************)
SetMin(S) == CHOOSE x \in S : \A y \in S : x <= y
SetMax(S) == CHOOSE x \in S : \A y \in S : x >= y

\* str.isspace for one character.
IsSpace(c) == c \in {" ", "\t", "\n"}

RECURSIVE FindFrom(_, _, _)
\* The 0-based index of the first occurrence of sub in s at or after i, or -1.
FindFrom(s, sub, i) ==
    IF i + Len(sub) > Len(s) THEN -1
    ELSE IF SubSeq(s, i + 1, i + Len(sub)) = sub THEN i
    ELSE FindFrom(s, sub, i + 1)

\* s.find(sub): the 0-based index of the first occurrence, or -1.
StrFind(s, sub) == FindFrom(s, sub, 0)

\* `sub in s`.
StrContains(s, sub) == StrFind(s, sub) # -1

\* s[:n], n possibly negative.
SliceTo(s, n) ==
    IF n >= 0 THEN SubSeq(s, 1, IF n < Len(s) THEN n ELSE Len(s))
    ELSE SubSeq(s, 1, IF Len(s) + n > 0 THEN Len(s) + n ELSE 0)

\* s[n:], n >= 0.
SliceFrom(s, n) == SubSeq(s, n + 1, Len(s))

RECURSIVE FirstNonSpace(_, _)
\* The first position at or after i that holds no whitespace, Len(s) + 1 if none.
FirstNonSpace(s, i) ==
    IF i > Len(s) THEN i ELSE IF IsSpace(s[i]) THEN FirstNonSpace(s, i + 1) ELSE i

RECURSIVE LastNonSpace(_, _)
\* The last position at or before i that holds no whitespace, 0 if none.
LastNonSpace(s, i) ==
    IF i < 1 THEN 0 ELSE IF IsSpace(s[i]) THEN LastNonSpace(s, i - 1) ELSE i

RECURSIVE FirstSpace(_, _)
\* The first position at or after i that holds whitespace, Len(s) + 1 if none.
FirstSpace(s, i) ==
    IF i > Len(s) THEN i ELSE IF IsSpace(s[i]) THEN i ELSE FirstSpace(s, i + 1)

\* s.strip().
StrStrip(s) == SubSeq(s, FirstNonSpace(s, 1), LastNonSpace(s, Len(s)))

\* s.startswith(prefix).
StartsWith(s, prefix) == Len(s) >= Len(prefix) /\ SubSeq(s, 1, Len(prefix)) = prefix

RECURSIVE StrSplitOn(_, _)
\* s.split(sep): empty pieces are kept, "".split(sep) is [""].
StrSplitOn(s, sep) ==
    LET i == StrFind(s, sep)
    IN  IF i = -1 THEN <<s>>
        ELSE <<SubSeq(s, 1, i)>> \o StrSplitOn(SliceFrom(s, i + Len(sep)), sep)

RECURSIVE StrSplit(_)
\* s.split(): on runs of whitespace, no empty pieces.
StrSplit(s) ==
    LET from == FirstNonSpace(s, 1)
        to   == FirstSpace(s, from)
    IN  IF from > Len(s) THEN <<>>
        ELSE <<SubSeq(s, from, to - 1)>> \o StrSplit(SliceFrom(s, to - 1))

RECURSIVE StrJoin(_, _)
\* sep.join(pieces).
StrJoin(pieces, sep) ==
    IF pieces = <<>> THEN <<>>
    ELSE IF Len(pieces) = 1 THEN pieces[1]
    ELSE pieces[1] \o sep \o StrJoin(Tail(pieces), sep)

\* " ".join(line.split()).
NormalizeSpacing(s) == StrJoin(StrSplit(s), <<" ">>)

(***************************************************************************)
(* int(), float() and the 6-decimal format.                                *)
(***************************************************************************)
Digits == <<"0", "1", "2", "3", "4", "5", "6", "7", "8", "9">>
DigitSet == {Digits[i] : i \in 1..10}
DigitVal(c) == (CHOOSE i \in 1..10 : Digits[i] = c) - 1

RECURSIVE Pow10(_)
Pow10(n) == IF n = 0 THEN 1 ELSE 10 * Pow10(n - 1)

IsDigits(s) == s # <<>> /\ \A i \in 1..Len(s) : s[i] \in DigitSet

RECURSIVE NatVal(_)
NatVal(s) == IF s = <<>> THEN 0 ELSE 10 * NatVal(SubSeq(s, 1, Len(s) - 1)) + DigitVal(s[Len(s)])

RECURSIVE NatStr(_)
\* str(n) for n >= 0.
NatStr(n) == IF n < 10 THEN <<Digits[n + 1]>> ELSE NatStr(n \div 10) \o <<Digits[(n % 10) + 1]>>

HasSign(tok) == tok # <<>> /\ tok[1] \in {"+", "-"}
Unsigned(tok) == IF HasSign(tok) THEN Tail(tok) ELSE tok
SignOf(tok) == IF tok # <<>> /\ tok[1] = "-" THEN -1 ELSE 1

\* int(tok) succeeds: an optional sign and decimal digits, whitespace around it allowed.
IsInt(tok) == IsDigits(Unsigned(StrStrip(tok)))
IntVal(tok) == SignOf(StrStrip(tok)) * NatVal(Unsigned(StrStrip(tok)))
\* str(i) of an int.
IntStr(i) == IF i < 0 THEN <<"-">> \o NatStr(-i) ELSE NatStr(i)

\* float(tok) succeeds: [sign] digits [. digits], with one side of the point allowed
\* to be empty.  (Exponents, inf and nan are not among the inputs drawn.)
IsFloat(tok) ==
    LET Wellformed(parts) ==
            \/ Len(parts) = 1 /\ IsDigits(parts[1])
            \/ /\ Len(parts) = 2
               /\ parts[1] # <<>> \/ parts[2] # <<>>
               /\ parts[1] = <<>> \/ IsDigits(parts[1])
               /\ parts[2] = <<>> \/ IsDigits(parts[2])
    IN  Wellformed(StrSplitOn(Unsigned(StrStrip(tok)), <<".">>))

\* float(tok) in units of 10^-FracDigits; digits past FracDigits are cut (the
\* model's precision, as 53 bits are the double's).
FloatVal(tok) ==
    LET Scaled(whole, frac) ==
            NatVal(whole) * Pow10(FracDigits) + NatVal(frac) * Pow10(FracDigits - Len(frac))
        Magnitude(parts) ==
            Scaled(parts[1], IF Len(parts) = 2 THEN SliceTo(parts[2], FracDigits) ELSE <<>>)
    IN  SignOf(StrStrip(tok)) * Magnitude(StrSplitOn(Unsigned(StrStrip(tok)), <<".">>))

\* The float literal 1.0 / 0.0 of the source.
Float(n) == n * Pow10(FracDigits)

RECURSIVE ZeroPad(_, _)
ZeroPad(s, width) == IF Len(s) >= width THEN s ELSE ZeroPad(<<"0">> \o s, width)

\* f"{number:.6f}": rounded to `amount` decimals (to nearest; the inputs drawn
\* hold no exact tie), sign, integer part, point, `amount` digits.
floatBackDecAmount(number) ==
    LET step == Pow10(FracDigits - Decimals)
        a    == IF number < 0 THEN -number ELSE number
        q    == (a + step \div 2) \div step
    IN  (IF number < 0 THEN <<"-">> ELSE <<>>)
        \o NatStr(q \div Pow10(Decimals)) \o <<".">>
        \o ZeroPad(NatStr(q % Pow10(Decimals)), Decimals)

(***************************************************************************)
(* Vars: the tag table.                                                    *)
(***************************************************************************)
FACE_SHAPE_IDENTIFIER ==
    {"VERTEX_ONLY", "VERTEX_AND_TEXTURE", "VERTEX_AND_NORMAL", "VERTEX_AND_TEXTURE_AND_NORMAL"}

TAG_IDENTIFIER_CHARACTERS ==
    (<<"o">> :> "OBJECT") @@
    (<<"v">> :> "VERTEX") @@
    (<<"v", "n">> :> "VERTEX_NORMAL") @@
    (<<"v", "t">> :> "VERTEX_TEXTURE") @@
    (<<"v", "p">> :> "PARAMETER_SPACE_VERTEX") @@
    (<<"f">> :> "POLYGONAL_FACE_ELEMENT") @@
    (<<"l">> :> "LINE_ELEMENT") @@
    (<<"s">> :> "SMOOTH_SHADE") @@
    (<<"g">> :> "GROUP") @@
    (<<"m", "t", "l", "l", "i", "b">> :> "MTL_LIB") @@
    (<<"u", "s", "e", "m", "t", "l">> :> "USE_MTL_LIB")

\* TAG_IDENTIFIER_TO_STRING[tag]: the inverse of the table.
TAG_IDENTIFIER_TO_STRING(tag) ==
    CHOOSE k \in DOMAIN TAG_IDENTIFIER_CHARACTERS : TAG_IDENTIFIER_CHARACTERS[k] = tag

(***************************************************************************)
(* A call's outcome: err is "none" or the exception raised, arg the text   *)
(* the exception is built with, val the value returned.                    *)
(***************************************************************************)
Ok(v) == [err |-> "none", arg |-> <<>>, val |-> v]
Raise(kind, text) == [err |-> kind, arg |-> text, val |-> <<>>]

\* A call and what follows it: an exception raised by the call leaves the
\* caller at once, otherwise the rest runs on the value returned.
Then(r, Rest(_)) == IF r.err # "none" THEN r ELSE Rest(r.val)

(***************************************************************************)
(* TokenConsumers.                                                         *)
(***************************************************************************)
\* _input[: _input.find(" ")].strip() : find returns -1 when the line holds no
\* space, and the slice then drops the line's last character.
tagCanidate(_input) == StrStrip(SliceTo(_input, StrFind(_input, <<" ">>)))

consumeTagAndReturnLeftover(_input) ==
    LET Leftover(cand) ==
            IF cand \notin DOMAIN TAG_IDENTIFIER_CHARACTERS
            THEN Raise("UnknownTagException", cand)
            ELSE Ok(StrStrip(SliceFrom(_input, Len(cand))))
    IN  Leftover(tagCanidate(_input))

consumeAndReturnTag(_input) ==
    LET Lookup(cand) ==
            IF cand \notin DOMAIN TAG_IDENTIFIER_CHARACTERS
            THEN Raise("UnknownTagException", cand)
            ELSE Ok(TAG_IDENTIFIER_CHARACTERS[cand])
    IN  Lookup(tagCanidate(_input))

consumeToNextSpace(_input) == SliceTo(_input, StrFind(_input, <<" ">>))

(***************************************************************************)
(* The records.                                                            *)
(***************************************************************************)
\* An optional value: None, or Some(x).
None == <<>>
Some(x) == <<x>>

\* The constructors take positional arguments: a wrong count is a TypeError.
Vertex(vals) ==
    IF Len(vals) = 3 THEN Ok([X |-> vals[1], Y |-> vals[2], Z |-> vals[3], W |-> Float(1)])
    ELSE IF Len(vals) = 4 THEN Ok([X |-> vals[1], Y |-> vals[2], Z |-> vals[3], W |-> vals[4]])
    ELSE Raise("TypeError", <<>>)

VertexNormal(vals) ==
    IF Len(vals) = 3 THEN Ok([X |-> vals[1], Y |-> vals[2], Z |-> vals[3]])
    ELSE Raise("TypeError", <<>>)

VertexTexture(vals) ==
    IF Len(vals) = 2 THEN Ok([X |-> vals[1], Y |-> vals[2], W |-> Float(0)])
    ELSE IF Len(vals) = 3 THEN Ok([X |-> vals[1], Y |-> vals[2], W |-> vals[3]])
    ELSE Raise("TypeError", <<>>)

VertexIndexer(vertexIndex, vertexTextureIndex, vertexNormalIndex, outputShape) ==
    [vertexIndex |-> vertexIndex, vertexTextureIndex |-> vertexTextureIndex,
     vertexNormalIndex |-> vertexNormalIndex, outputShape |-> outputShape,
     linkedMaterial |-> None]

\* WaveObj(name): isSmoothShaded is no attribute until an `s` line sets it.
WaveObj(name) ==
    [name |-> name, hasSmoothShaded |-> FALSE, isSmoothShaded |-> FALSE,
     verticies |-> <<>>, vertexNormals |-> <<>>, vertexTextures |-> <<>>,
     faces |-> <<>>, linkedMTLLibs |-> <<>>]

(***************************************************************************)
(* Parsers: the value parsers.                                             *)
(***************************************************************************)
\* [typeFactory(i) for i in tokens] with float: the first token float() refuses
\* raises ValueError.
MapFloat(tokens) ==
    LET Converted(bad) ==
            IF bad # {} THEN Raise("ValueError", tokens[SetMin(bad)])
            ELSE Ok([i \in 1..Len(tokens) |-> FloatVal(tokens[i])])
    IN  Converted({i \in 1..Len(tokens) : ~IsFloat(tokens[i])})

consumeTagAndReturnLeftoverAsType(line) ==
    Then(consumeTagAndReturnLeftover(line),
         LAMBDA left : MapFloat(StrSplitOn(NormalizeSpacing(left), <<" ">>)))

Parsers_vertexOnlyParser(line) ==
    Then(consumeTagAndReturnLeftoverAsType(line), LAMBDA vals : Vertex(vals))

Parsers_vertexTextureParser(line) ==
    Then(consumeTagAndReturnLeftoverAsType(line), LAMBDA vals : VertexTexture(vals))

Parsers_vertexNormalParser(line) ==
    Then(consumeTagAndReturnLeftoverAsType(line), LAMBDA vals : VertexNormal(vals))

(***************************************************************************)
(* Parsers.getFaceDataStyle: the shape of a face line.                     *)
(***************************************************************************)
getFaceDataStyle(line) ==
    IF StrContains(line, <<"/", "/">>) THEN Ok("VERTEX_AND_NORMAL")
    ELSE
    LET Style(normalizedSpacing, nextVal, trySplit) ==
            IF StrContains(normalizedSpacing, <<"/">>) /\ trySplit = 2
                 THEN Ok("VERTEX_AND_TEXTURE")
            ELSE IF StrContains(normalizedSpacing, <<"/">>) /\ trySplit = 3
                 THEN Ok("VERTEX_AND_TEXTURE_AND_NORMAL")
            ELSE IF IsInt(nextVal) THEN Ok("VERTEX_ONLY")
            ELSE Raise("ShapeException", line)
        OfNext(normalizedSpacing, nextVal) ==
            Style(normalizedSpacing, nextVal, Len(StrSplitOn(nextVal, <<"/">>)))
        OfSpacing(normalizedSpacing) ==
            OfNext(normalizedSpacing, consumeToNextSpace(normalizedSpacing))
    IN  Then(consumeTagAndReturnLeftover(line),
             LAMBDA rawValues : OfSpacing(NormalizeSpacing(rawValues)))

(***************************************************************************)
(* Parsers.Faces: one parser per shape.                                    *)
(***************************************************************************)
\* The items of a face line: normalizedSpacing.split(" ").
FaceItems(line) == StrSplitOn(NormalizeSpacing(consumeTagAndReturnLeftover(line).val), <<" ">>)

\* [int(index) for index in item.split(sep)] raises ValueError on its first
\* field that is no int.
AllInt(item, sep) ==
    LET Every(parts) == \A k \in 1..Len(parts) : IsInt(parts[k])
    IN  Every(StrSplitOn(item, sep))
FirstBadField(item, sep) ==
    LET First(parts) == parts[SetMin({k \in 1..Len(parts) : ~IsInt(parts[k])})]
    IN  First(StrSplitOn(item, sep))
Indices(item, sep) ==
    LET Each(parts) == [k \in 1..Len(parts) |-> IntVal(parts[k])]
    IN  Each(StrSplitOn(item, sep))

\* The loop over the items, shared by the three parsers that split an item:
\* item by item, int() first, then the arity test, then the indexer.
RECURSIVE ParseItems(_, _, _, _)
ParseItems(items, sep, arity, shape) ==
    IF items = <<>> THEN Ok(<<>>)
    ELSE
    LET Indexer(ix) ==
            IF shape = "VERTEX_AND_TEXTURE_AND_NORMAL" THEN VertexIndexer(ix[1], ix[2], ix[3], shape)
            ELSE IF shape = "VERTEX_AND_TEXTURE" THEN VertexIndexer(ix[1], ix[2], 0, shape)
            ELSE VertexIndexer(ix[1], 0, ix[2], shape)
        Item(item, ix) ==
            IF ~AllInt(item, sep) THEN Raise("ValueError", FirstBadField(item, sep))
            ELSE IF Len(ix) # arity THEN Raise("ShapeException", item)
            ELSE Then(ParseItems(Tail(items), sep, arity, shape),
                      LAMBDA rest : Ok(<<Indexer(ix)>> \o rest))
    IN  Item(items[1], Indices(items[1], sep))

Faces_vertexTextureNormalParser(line) ==
    ParseItems(FaceItems(line), <<"/">>, 3, "VERTEX_AND_TEXTURE_AND_NORMAL")

Faces_vertexTextureParser(line) ==
    ParseItems(FaceItems(line), <<"/">>, 2, "VERTEX_AND_TEXTURE")

Faces_vertexAndNormalParser(line) ==
    ParseItems(FaceItems(line), <<"/", "/">>, 2, "VERTEX_AND_NORMAL")

\* Every item is converted with int() before any indexer is built.
Faces_vertexOnlyParser(line) ==
    LET Converted(items, bad) ==
            IF bad # {} THEN Raise("ValueError", items[SetMin(bad)])
            ELSE Ok([i \in 1..Len(items) |-> VertexIndexer(IntVal(items[i]), 0, 0, "VERTEX_ONLY")])
        Convert(items) == Converted(items, {i \in 1..Len(items) : ~IsInt(items[i])})
    IN  Convert(FaceItems(line))


(***************************************************************************)
(* decode: the body of the loop over the lines.  The decoder's locals are  *)
(* d = [obj, mtlLibs, lastUsedMaterial]; a line either yields the new      *)
(* locals or raises, and a line that raises has changed nothing.           *)
(***************************************************************************)
StampMaterial(indexers, lastUsedMaterial) ==
    IF lastUsedMaterial # None
    THEN [i \in 1..Len(indexers) |-> [indexers[i] EXCEPT !.linkedMaterial = lastUsedMaterial]]
    ELSE indexers

\* Mutant: an o line also forgets the material in use.
DecodeObject_ResetsMaterial(d, line) ==
    Then(consumeTagAndReturnLeftover(line),
         LAMBDA name : Ok([d EXCEPT !.obj.name = name, !.lastUsedMaterial = None]))

\* Mutant: an o line starts a new object instead of renaming the one at hand.
DecodeObject_NewObject(d, line) ==
    Then(consumeTagAndReturnLeftover(line), LAMBDA name : Ok([d EXCEPT !.obj = WaveObj(name)]))

\* case TAG_IDENTIFIER.OBJECT
DecodeObject(d, line) ==
    Then(consumeTagAndReturnLeftover(line), LAMBDA name : Ok([d EXCEPT !.obj.name = name]))

\* case TAG_IDENTIFIER.VERTEX
DecodeVertex(d, line) ==
    Then(Parsers_vertexOnlyParser(line),
         LAMBDA vertex : Ok([d EXCEPT !.obj.verticies = Append(@, vertex)]))

\* case TAG_IDENTIFIER.VERTEX_NORMAL
DecodeVertexNormal(d, line) ==
    Then(Parsers_vertexNormalParser(line),
         LAMBDA vertexNormal : Ok([d EXCEPT !.obj.vertexNormals = Append(@, vertexNormal)]))

\* case TAG_IDENTIFIER.VERTEX_TEXTURE
DecodeVertexTexture(d, line) ==
    Then(Parsers_vertexTextureParser(line),
         LAMBDA vertexTexture : Ok([d EXCEPT !.obj.vertexTextures = Append(@, vertexTexture)]))

\* case TAG_IDENTIFIER.SMOOTH_SHADE
DecodeSmoothShade(d, line) ==
    Then(consumeTagAndReturnLeftover(line),
         LAMBDA raw : IF ~IsInt(raw) THEN Raise("ValueError", raw)
                      ELSE Ok([d EXCEPT !.obj.hasSmoothShaded = TRUE,
                                        !.obj.isSmoothShaded = (IntVal(raw) = 1)]))

\* case TAG_IDENTIFIER.MTL_LIB
DecodeMtlLib(d, line) ==
    Then(consumeTagAndReturnLeftover(line),
         LAMBDA libName : Ok([d EXCEPT !.mtlLibs = Append(@, libName)]))

\* case TAG_IDENTIFIER.USE_MTL_LIB
DecodeUseMtl(d, line) ==
    Then(consumeTagAndReturnLeftover(line),
         LAMBDA libName : Ok([d EXCEPT !.lastUsedMaterial = Some(libName)]))

\* The parser the inner match picks for a shape.
FaceParser(dataType, line) ==
    CASE dataType = "VERTEX_AND_TEXTURE_AND_NORMAL" -> Faces_vertexTextureNormalParser(line)
      [] dataType = "VERTEX_AND_TEXTURE"            -> Faces_vertexTextureParser(line)
      [] dataType = "VERTEX_AND_NORMAL"             -> Faces_vertexAndNormalParser(line)
      [] dataType = "VERTEX_ONLY"                   -> Faces_vertexOnlyParser(line)
      [] OTHER                                      -> Raise("NotImplementedError", <<>>)

\* case TAG_IDENTIFIER.POLYGONAL_FACE_ELEMENT
DecodeFace(d, line) ==
    LET Parsed(dataType) ==
            Then(FaceParser(dataType, line),
                 LAMBDA indexers :
                     Ok([d EXCEPT !.obj.faces =
                            Append(@, StampMaterial(indexers, d.lastUsedMaterial))]))
    IN  Then(getFaceDataStyle(line), Parsed)

\* One turn of `for line in lines`: strip, lex the tag, match on it.  LINE_ELEMENT,
\* GROUP and PARAMETER_SPACE_VERTEX have no case.
DecodeLine(d, rawLine) ==
    LET Match(line, tagType) ==
            CASE tagType = "OBJECT"                 -> DecodeObject(d, line)
              [] tagType = "VERTEX"                 -> DecodeVertex(d, line)
              [] tagType = "VERTEX_NORMAL"          -> DecodeVertexNormal(d, line)
              [] tagType = "VERTEX_TEXTURE"         -> DecodeVertexTexture(d, line)
              [] tagType = "SMOOTH_SHADE"           -> DecodeSmoothShade(d, line)
              [] tagType = "MTL_LIB"                -> DecodeMtlLib(d, line)
              [] tagType = "USE_MTL_LIB"            -> DecodeUseMtl(d, line)
              [] tagType = "POLYGONAL_FACE_ELEMENT" -> DecodeFace(d, line)
              [] OTHER                              -> Ok(d)
        Turn(line) == Then(consumeAndReturnTag(line), LAMBDA tagType : Match(line, tagType))
    IN  Turn(StrStrip(rawLine))

\* The filter decode applies before the loop.
KeepLine(line) == ~StartsWith(line, <<"#">>) /\ StrStrip(line) # <<>>

\* The locals before the first line; objectName is "object" for a str source and
\* the path's stem for a Path.
DecoderStart(objectName) ==
    [obj |-> WaveObj(objectName), mtlLibs |-> <<>>, lastUsedMaterial |-> None]

\* After the loop: the one object, with the libraries copied onto it.
Returned(d) == <<[d.obj EXCEPT !.linkedMTLLibs = d.mtlLibs]>>

RECURSIVE DecodeLoop(_, _)
DecodeLoop(d, ls) ==
    IF ls = <<>> THEN Ok(d)
    ELSE Then(DecodeLine(d, ls[1]), LAMBDA next : DecodeLoop(next, Tail(ls)))

\* decode(source) as a whole, on the lines of the source.
decode(sourceLines, objectName) ==
    Then(DecodeLoop(DecoderStart(objectName), SelectSeq(sourceLines, KeepLine)),
         LAMBDA d : Ok(Returned(d)))

(***************************************************************************)
(* WaveObj.export: the lines written to the file.                          *)
(***************************************************************************)
SP == <<" ">>
Tagged(tag, text) == TAG_IDENTIFIER_TO_STRING(tag) \o SP \o text

ExportVertex(v) ==
    Tagged("VERTEX", floatBackDecAmount(v.X) \o SP \o floatBackDecAmount(v.Y)
                     \o SP \o floatBackDecAmount(v.Z)
                     \o (IF v.W # Float(1) THEN SP \o floatBackDecAmount(v.W) ELSE <<>>))

ExportVertexTexture(vt) ==
    Tagged("VERTEX_TEXTURE", floatBackDecAmount(vt.X) \o SP \o floatBackDecAmount(vt.Y))

ExportVertexNormal(vn) ==
    Tagged("VERTEX_NORMAL", floatBackDecAmount(vn.X) \o SP \o floatBackDecAmount(vn.Y)
                            \o SP \o floatBackDecAmount(vn.Z))

\* One reference of a face line, by the record's shape.
ExportIndexer(vi, shape) ==
    CASE shape = "VERTEX_AND_TEXTURE_AND_NORMAL" ->
             IntStr(vi.vertexIndex) \o <<"/">> \o IntStr(vi.vertexTextureIndex)
             \o <<"/">> \o IntStr(vi.vertexNormalIndex)
      [] shape = "VERTEX_AND_TEXTURE" ->
             IntStr(vi.vertexIndex) \o <<"/">> \o IntStr(vi.vertexTextureIndex)
      [] shape = "VERTEX_AND_NORMAL" ->
             IntStr(vi.vertexIndex) \o <<"/", "/">> \o IntStr(vi.vertexNormalIndex)
      [] shape = "VERTEX_ONLY" -> IntStr(vi.vertexIndex)

\* The lines one face record writes: usemtl when its first reference carries a
\* material, then the f line.  An empty record writes nothing.
ExportFace(face) ==
    IF face = <<>> THEN <<>>
    ELSE (IF face[1].linkedMaterial # None
          THEN <<Tagged("USE_MTL_LIB", face[1].linkedMaterial[1])>> ELSE <<>>)
         \o <<Tagged("POLYGONAL_FACE_ELEMENT",
                     StrJoin([i \in 1..Len(face) |-> ExportIndexer(face[i], face[1].outputShape)], SP))>>

RECURSIVE ExportFacesAfter(_, _)
\* Mutant: usemtl is written only when the material differs from that of the
\* record before.
ExportFacesAfter(faces, previous) ==
    IF faces = <<>> THEN <<>>
    ELSE (IF faces[1] # <<>> /\ faces[1][1].linkedMaterial = previous
          THEN <<ExportFace(faces[1])[Len(ExportFace(faces[1]))]>>
          ELSE ExportFace(faces[1]))
         \o ExportFacesAfter(Tail(faces),
                             IF faces[1] = <<>> THEN previous ELSE faces[1][1].linkedMaterial)
ExportFaces_Deduplicated(faces) == ExportFacesAfter(faces, None)

RECURSIVE ExportFaces(_)
\* The loop over self.faces.indexers.
ExportFaces(faces) ==
    IF faces = <<>> THEN <<>> ELSE ExportFace(faces[1]) \o ExportFaces(Tail(faces))

\* The two header comments (the second carries datetime.now()) and the trailer.
HeaderLines == <<<<"#", " ", "E", "x", "p", "o", "r", "t", "e", "d", " ", "w", "i", "t", "h", " ", "W", "a", "v", "e", "f", "r", "o", "n", "t", "D", "O", "T", "p", "y">>, <<"#", " ", "E", "x", "p", "o", "r", "t", "e", "d", " ", "a", "t", ":", " ", "n", "o", "w">>, <<>>>>
TrailerLines == <<<<>>, <<"#", " ", "E", "O", "F">>>>

export(self) ==
    HeaderLines
    \o [i \in 1..Len(self.linkedMTLLibs) |-> Tagged("MTL_LIB", self.linkedMTLLibs[i])]
    \o <<<<>>>>
    \o <<Tagged("OBJECT", self.name), <<>>>>
    \o [i \in 1..Len(self.verticies) |-> ExportVertex(self.verticies[i])]
    \o <<<<>>>>
    \o [i \in 1..Len(self.vertexTextures) |-> ExportVertexTexture(self.vertexTextures[i])]
    \o [i \in 1..Len(self.vertexNormals) |-> ExportVertexNormal(self.vertexNormals[i])]
    \o (IF self.hasSmoothShaded
        THEN <<Tagged("SMOOTH_SHADE", IF self.isSmoothShaded THEN <<"1">> ELSE <<"0">>)>>
        ELSE <<>>)
    \o <<<<>>>>
    \o ExportFaces(self.faces)
    \o TrailerLines


(***************************************************************************)
(* The inputs drawn.  Every line passes decode's comment/blank filter.     *)
(***************************************************************************)
\* One line or more of every tag, two lines that hold no space, an unknown tag
\* and a short vertex line.
SceneLines ==
    {
      <<"o", " ", "A">>,  \* 'o A'
      <<"o", " ", "B">>,  \* 'o B'
      <<"v", " ", "1", " ", "2", " ", "3">>,  \* 'v 1 2 3'
      <<"v", "n", " ", "1", " ", "2", " ", "3">>,  \* 'vn 1 2 3'
      <<"v", "t", " ", "1", " ", "2">>,  \* 'vt 1 2'
      <<"s", " ", "1">>,  \* 's 1'
      <<"m", "t", "l", "l", "i", "b", " ", "L">>,  \* 'mtllib L'
      <<"u", "s", "e", "m", "t", "l", " ", "A">>,  \* 'usemtl A'
      <<"u", "s", "e", "m", "t", "l", " ", "B">>,  \* 'usemtl B'
      <<"l", " ", "1", " ", "2">>,  \* 'l 1 2'
      <<"g", " ", "A">>,  \* 'g A'
      <<"v", "p", " ", "1", " ", "2">>,  \* 'vp 1 2'
      <<"f", " ", "1", " ", "2">>,  \* 'f 1 2'
      <<"f", " ", "1", "/", "2", "/", "3", " ", "4", "/", "5", "/", "6">>,  \* 'f 1/2/3 4/5/6'
      <<"o", "x">>,  \* 'ox'
      <<"u", "s", "e", "m", "t", "l", "X">>,  \* 'usemtlX'
      <<"z", "z", " ", "1">>,  \* 'zz 1'
      <<"v", " ", "1", " ", "2">>  \* 'v 1 2'
    }

\* The lines that probe the lexer and the parsers: bare tags, lines without a
\* space, value lines of every token count, faces of one shape and of mixed
\* shapes.
ProbeLines ==
    {
      <<"o">>,  \* 'o'
      <<"v">>,  \* 'v'
      <<"v", "n">>,  \* 'vn'
      <<"v", "t">>,  \* 'vt'
      <<"v", "p">>,  \* 'vp'
      <<"f">>,  \* 'f'
      <<"l">>,  \* 'l'
      <<"s">>,  \* 's'
      <<"g">>,  \* 'g'
      <<"m", "t", "l", "l", "i", "b">>,  \* 'mtllib'
      <<"u", "s", "e", "m", "t", "l">>,  \* 'usemtl'
      <<"z", "z">>,  \* 'zz'
      <<"z", "z", " ", "1", " ", "2", " ", "3">>,  \* 'zz 1 2 3'
      <<"s", "1">>,  \* 's1'
      <<"v", "x">>,  \* 'vx'
      <<"f", "x">>,  \* 'fx'
      <<"f", "1", "2">>,  \* 'f12'
      <<"z", "z", "\t", "1", " ", "2">>,  \* 'zz\t1 2'
      <<"v", " ", "1", " ", "2", " ", "3", " ", "4">>,  \* 'v 1 2 3 4'
      <<"v", " ", "0", ".", "1", "2", "3", "4", "5", "6", "7", " ", "-", "2", " ", "3", ".", "5">>,  \* 'v 0.1234567 -2 3.5'
      <<"v", " ", "1", " ", "2", " ", "3", " ", "4", " ", "5">>,  \* 'v 1 2 3 4 5'
      <<"v", " ", "1", " ", "x", " ", "3">>,  \* 'v 1 x 3'
      <<"v", " ", "1", "\t", "2", " ", " ", "3">>,  \* 'v 1\t2  3'
      <<"v", "n", " ", "1", " ", "2">>,  \* 'vn 1 2'
      <<"v", "n", " ", "1", " ", "2", " ", "3", " ", "4">>,  \* 'vn 1 2 3 4'
      <<"v", "t", " ", "1">>,  \* 'vt 1'
      <<"v", "t", " ", "1", " ", "2", " ", "0", ".", "5">>,  \* 'vt 1 2 0.5'
      <<"v", "t", " ", "1", " ", "2", " ", "3", " ", "4">>,  \* 'vt 1 2 3 4'
      <<"s", " ", "0">>,  \* 's 0'
      <<"s", " ", "o", "f", "f">>,  \* 's off'
      <<"s", " ", "1", " ">>,  \* 's 1 '
      <<"f", " ", "1">>,  \* 'f 1'
      <<"f", " ", "1", "2">>,  \* 'f 12'
      <<"f", " ", "1", " ", "2", " ", "3">>,  \* 'f 1 2 3'
      <<"f", " ", "1", "/", "2">>,  \* 'f 1/2'
      <<"f", " ", "1", "/", "2", " ", "3", "/", "4">>,  \* 'f 1/2 3/4'
      <<"f", " ", "1", "/", "/", "2">>,  \* 'f 1//2'
      <<"f", " ", "1", "/", "/", "2", " ", "3", "/", "/", "4">>,  \* 'f 1//2 3//4'
      <<"f", " ", "1", "/", "2", "/", "3">>,  \* 'f 1/2/3'
      <<"f", " ", "1", "/", "1", "/", "1", " ", "2", "/", "2">>,  \* 'f 1/1/1 2/2'
      <<"f", " ", "1", "/", "1", " ", "2", "/", "2", "/", "2">>,  \* 'f 1/1 2/2/2'
      <<"f", " ", "1", " ", "2", "/", "2">>,  \* 'f 1 2/2'
      <<"f", " ", "1", "/", "/", "1", " ", "2", "/", "2", "/", "2">>,  \* 'f 1//1 2/2/2'
      <<"f", " ", "1", " ", "2", "/", "/", "2">>,  \* 'f 1 2//2'
      <<"f", " ", "1", "/", "1", " ", "2", "/", "/", "2">>,  \* 'f 1/1 2//2'
      <<"f", " ", "1", "/", "1", "/", "1", " ", "2", "/", "/", "2">>,  \* 'f 1/1/1 2//2'
      <<"f", " ", "1", "/", "/", "1", " ", "2">>,  \* 'f 1//1 2'
      <<"f", " ", "x">>,  \* 'f x'
      <<"f", " ", "1", "/", "x", " ", "2", "/", "2">>,  \* 'f 1/x 2/2'
      <<"f", " ", "1", "/", "2", "/", "3", "/", "4">>  \* 'f 1/2/3/4'
    }

AllLines == SceneLines \cup ProbeLines

\* The stem of the path an exported file is read back from.
ExportStem == <<"o", "u", "t">>

(***************************************************************************)
(* The state: decode's locals while it runs over a str source, what it     *)
(* returned or raised, the exported file and the result of decoding it.    *)
(***************************************************************************)
VARIABLES
    pc,                \* "decoding", "failed", "returned", "exported", "reread"
    lines,             \* the lines the loop has taken so far
    currentObject,     \* the WaveObj under construction
    mtlLibs,           \* mtllib payloads so far
    lastUsedMaterial,  \* None or Some(payload of the last usemtl)
    err,               \* "none" or the exception decode raised
    errArg,            \* the text the exception was built with
    objects,           \* decode's return value, <<>> until it returns
    file,              \* the lines export wrote
    reread             \* the outcome of decode on the exported file

vars == <<pc, lines, currentObject, mtlLibs, lastUsedMaterial, err, errArg,
          objects, file, reread>>

Locals == [obj |-> currentObject, mtlLibs |-> mtlLibs, lastUsedMaterial |-> lastUsedMaterial]

Init ==
    /\ pc = "decoding"
    /\ lines = <<>>
    /\ currentObject = WaveObj(<<"o", "b", "j", "e", "c", "t">>)
    /\ mtlLibs = <<>>
    /\ lastUsedMaterial = None
    /\ err = "none"
    /\ errArg = <<>>
    /\ objects = <<>>
    /\ file = <<>>
    /\ reread = Ok(<<>>)

\* The loop takes the next line: it updates the locals, or the exception leaves
\* decode and nothing is returned.
ReadLine(line) ==
    /\ pc = "decoding"
    /\ lines' = Append(lines, line)
    /\ LET Taken(r) ==
               IF r.err = "none"
               THEN /\ currentObject' = r.val.obj
                    /\ mtlLibs' = r.val.mtlLibs
                    /\ lastUsedMaterial' = r.val.lastUsedMaterial
                    /\ UNCHANGED <<pc, err, errArg>>
               ELSE /\ pc' = "failed"
                    /\ err' = r.err
                    /\ errArg' = r.arg
                    /\ UNCHANGED <<currentObject, mtlLibs, lastUsedMaterial>>
       IN  Taken(DecodeLine(Locals, line))
    /\ UNCHANGED <<objects, file, reread>>

\* The source is exhausted: decode returns the list of objects.
Return ==
    /\ pc = "decoding"
    /\ pc' = "returned"
    /\ objects' = Returned(Locals)
    /\ UNCHANGED <<lines, currentObject, mtlLibs, lastUsedMaterial, err, errArg, file, reread>>

\* The caller exports the returned object.
Export ==
    /\ pc = "returned"
    /\ pc' = "exported"
    /\ file' = export(objects[1])
    /\ UNCHANGED <<lines, currentObject, mtlLibs, lastUsedMaterial, err, errArg, objects, reread>>

\* The caller decodes the exported file.
Redecode ==
    /\ pc = "exported"
    /\ pc' = "reread"
    /\ reread' = decode(file, ExportStem)
    /\ UNCHANGED <<lines, currentObject, mtlLibs, lastUsedMaterial, err, errArg, objects, file>>

ReadSceneLine == \E line \in SceneLines : Len(lines) < MaxLines /\ ReadLine(line)
ReadAnyLine == \E line \in AllLines : Len(lines) < MaxProbeLines /\ ReadLine(line)

\* Scenes of up to MaxLines lines, decoded and exported.
Next == ReadSceneLine \/ Return \/ Export
Spec == Init /\ [][Next]_vars

\* Inputs of up to MaxProbeLines lines drawn from every line, decoded, exported
\* and decoded again.
LineNext == ReadAnyLine \/ Return \/ Export \/ Redecode
LineSpec == Init /\ [][LineNext]_vars


(***************************************************************************)
(* What the claims speak of.                                               *)
(***************************************************************************)
\* A line's whitespace-delimited tokens: its first token and its reference tokens.
FirstToken(line) == SubSeq(line, FirstNonSpace(line, 1), FirstSpace(line, FirstNonSpace(line, 1)) - 1)
RefTokens(line) == Tail(StrSplit(line))
TagStrings == DOMAIN TAG_IDENTIFIER_CHARACTERS
FaceTagString == <<"f">>
IgnoredTagStrings == {<<"l">>, <<"g">>, <<"v", "p">>}

\* The tag kind the decoder dispatches a line on ("NONE" when the lexer refuses
\* the line), and the payload it takes from it.
DispatchTag(line) ==
    LET t == consumeAndReturnTag(StrStrip(line)) IN IF t.err = "none" THEN t.val ELSE "NONE"
Payload(line) == consumeTagAndReturnLeftover(StrStrip(line)).val

\* The lines the loop has completed: all of them, but for the one that raised.
Completed == IF pc = "failed" THEN Len(lines) - 1 ELSE Len(lines)
\* The dispatch tag of every completed line, and the numbers of the lines of a tag.
CompletedTags == [i \in 1..Completed |-> DispatchTag(lines[i])]
LinesOf(tags, tag) == {i \in 1..Len(tags) : tags[i] = tag}
\* The k-th member of a set of line numbers.
Kth(S, k) == CHOOSE i \in S : Cardinality({j \in S : j <= i}) = k

\* The step that takes `line`.
Reads(line) == lines' = Append(lines, line)
LastLine == lines[Len(lines)]

\* The shape of one reference token, by its form alone.
TokenShape(tok) ==
    LET two == StrSplitOn(tok, <<"/", "/">>)
        one == StrSplitOn(tok, <<"/">>)
        ints(parts) == \A k \in 1..Len(parts) : IsInt(parts[k])
    IN  IF IsInt(tok) THEN "VERTEX_ONLY"
        ELSE IF Len(two) = 2 /\ ints(two) THEN "VERTEX_AND_NORMAL"
        ELSE IF Len(one) = 2 /\ ints(one) THEN "VERTEX_AND_TEXTURE"
        ELSE IF Len(one) = 3 /\ ints(one) THEN "VERTEX_AND_TEXTURE_AND_NORMAL"
        ELSE "NONE"

\* The reference a token of a known shape stands for: indices and shape tag.
TokenRef(tok) ==
    LET shape == TokenShape(tok)
        one   == StrSplitOn(tok, <<"/">>)
        two   == StrSplitOn(tok, <<"/", "/">>)
    IN  CASE shape = "VERTEX_ONLY" -> <<IntVal(tok), 0, 0, shape>>
          [] shape = "VERTEX_AND_TEXTURE" -> <<IntVal(one[1]), IntVal(one[2]), 0, shape>>
          [] shape = "VERTEX_AND_NORMAL" -> <<IntVal(two[1]), 0, IntVal(two[2]), shape>>
          [] shape = "VERTEX_AND_TEXTURE_AND_NORMAL" ->
                 <<IntVal(one[1]), IntVal(one[2]), IntVal(one[3]), shape>>

\* Indices and shape tag of a decoded reference.
RefOf(vi) == <<vi.vertexIndex, vi.vertexTextureIndex, vi.vertexNormalIndex, vi.outputShape>>
RefsOf(face) == [r \in 1..Len(face) |-> RefOf(face[r])]

IsFaceLine(line) == FirstToken(line) = FaceTagString /\ RefTokens(line) # <<>>
\* A face line whose tokens all have one known shape.
UniformFace(line) ==
    /\ IsFaceLine(line)
    /\ TokenShape(RefTokens(line)[1]) # "NONE"
    /\ \A k \in 1..Len(RefTokens(line)) : TokenShape(RefTokens(line)[k]) = TokenShape(RefTokens(line)[1])
\* The later tokens of a face line whose known shape differs from the first token's.
Mismatched(line) ==
    {k \in 2..Len(RefTokens(line)) :
        /\ TokenShape(RefTokens(line)[k]) # "NONE"
        /\ TokenShape(RefTokens(line)[k]) # TokenShape(RefTokens(line)[1])}
MixedFace(line) ==
    IsFaceLine(line) /\ TokenShape(RefTokens(line)[1]) # "NONE" /\ Mismatched(line) # {}

(***************************************************************************)
(* C1.  A line whose first whitespace-delimited token is none of the 11    *)
(* tag strings, with or without a payload, makes decode fail with          *)
(* UnknownTagError: it is the line decode stops at, and the error is of    *)
(* no other kind.                                                          *)
(***************************************************************************)
C1_UnknownTokenRaisesUnknownTag ==
    \A i \in 1..Len(lines) :
        FirstToken(lines[i]) \notin TagStrings
            => i = Len(lines) /\ pc = "failed" /\ err = "UnknownTagException"

(***************************************************************************)
(* C2.  Material stickiness: in every state of decode, and in what it      *)
(* returns, there is one face record per face line, in order, and every    *)
(* reference of a record carries the payload of the last usemtl line       *)
(* before its face line, or no material when there is none; lines of any   *)
(* other tag in between change nothing of it.  A line is of a tag when the *)
(* decoder dispatches it on that tag.                                      *)
(***************************************************************************)
MaterialBefore(tags, i) ==
    LET us == {j \in LinesOf(tags, "USE_MTL_LIB") : j < i}
    IN  IF us = {} THEN None ELSE Some(Payload(lines[SetMax(us)]))

StickyIn(tags, faces) ==
    LET fs == LinesOf(tags, "POLYGONAL_FACE_ELEMENT")
    IN  /\ Len(faces) = Cardinality(fs)
        /\ \A k \in 1..Len(faces) :
               LET material == MaterialBefore(tags, Kth(fs, k))
               IN  \A r \in 1..Len(faces[k]) : faces[k][r].linkedMaterial = material

Near(a, b) == LET half == Pow10(FracDigits - Decimals) \div 2
              IN  a - b <= half /\ b - a <= half
SameFaces(fa, fb) ==
    Len(fa) = Len(fb) /\ \A k \in 1..Len(fa) : RefsOf(fa[k]) = RefsOf(fb[k])
SameGeometry(a, b) ==
    /\ Len(a.verticies) = Len(b.verticies)
    /\ \A i \in 1..Len(a.verticies) :
           /\ Near(a.verticies[i].X, b.verticies[i].X) /\ Near(a.verticies[i].Y, b.verticies[i].Y)
           /\ Near(a.verticies[i].Z, b.verticies[i].Z) /\ Near(a.verticies[i].W, b.verticies[i].W)
    /\ Len(a.vertexNormals) = Len(b.vertexNormals)
    /\ \A i \in 1..Len(a.vertexNormals) :
           /\ Near(a.vertexNormals[i].X, b.vertexNormals[i].X)
           /\ Near(a.vertexNormals[i].Y, b.vertexNormals[i].Y)
           /\ Near(a.vertexNormals[i].Z, b.vertexNormals[i].Z)
    /\ Len(a.vertexTextures) = Len(b.vertexTextures)
    /\ \A i \in 1..Len(a.vertexTextures) :
           /\ Near(a.vertexTextures[i].X, b.vertexTextures[i].X)
           /\ Near(a.vertexTextures[i].Y, b.vertexTextures[i].Y)
           /\ Near(a.vertexTextures[i].W, b.vertexTextures[i].W)
    /\ SameFaces(a.faces, b.faces)

C3_RoundTrip ==
    pc = "reread" =>
        /\ reread.err = "none"
        /\ Len(reread.val) = 1
        /\ SameGeometry(objects[1], reread.val[1])

(***************************************************************************)
(* C4.  A face line whose first reference token has one shape and in which *)
(* a later token has another makes decode fail with ShapeError on the      *)
(* first such later token, and appends no face record.                     *)
(***************************************************************************)
C4_MixedShapesRaiseShapeError ==
    [][\A line \in AllLines :
          Reads(line) /\ MixedFace(line) =>
              /\ pc' = "failed"
              /\ err' = "ShapeException"
              /\ errArg' = RefTokens(line)[SetMin(Mismatched(line))]
              /\ currentObject'.faces = currentObject.faces]_vars

(***************************************************************************)
(* C5.  A face line of n >= 1 reference tokens that all have one shape is  *)
(* decoded: exactly one face record is appended, of n references in token  *)
(* order, each with the tokens' shape tag and with 0 in the channels the   *)
(* shape omits.                                                            *)
(***************************************************************************)
C5_UniformFaceDecoded ==
    [][\A line \in AllLines :
          Reads(line) /\ UniformFace(line) =>
              /\ pc' = "decoding"
              /\ Len(currentObject'.faces) = Len(currentObject.faces) + 1
              /\ SubSeq(currentObject'.faces, 1, Len(currentObject.faces)) = currentObject.faces
              /\ RefsOf(currentObject'.faces[Len(currentObject'.faces)])
                     = [k \in 1..Len(RefTokens(line)) |-> TokenRef(RefTokens(line)[k])]]_vars

(***************************************************************************)
(* C6.  A line whose tag is l, g or vp, with or without a payload, is      *)
(* taken without error and leaves the decoder's state as it was.           *)
(***************************************************************************)
C6_IgnoredTagsChangeNothing ==
    [][\A line \in AllLines :
          Reads(line) /\ FirstToken(line) \in IgnoredTagStrings =>
              /\ pc' = "decoding"
              /\ err' = "none"
              /\ UNCHANGED <<currentObject, mtlLibs, lastUsedMaterial>>]_vars

(***************************************************************************)
(* C7.  decode returns the model after the last line, or stops at the      *)
(* first offending line with UnknownTagError, ShapeError or a numeric      *)
(* conversion failure and returns nothing; no other kind of failure        *)
(* occurs.                                                                 *)
(***************************************************************************)
C7_OnlyThreeFailureKinds ==
    /\ pc = "failed" =>
           /\ err \in {"UnknownTagException", "ShapeException", "ValueError"}
           /\ objects = <<>>
    /\ pc # "failed" => err = "none"
    /\ objects # <<>> => err = "none" /\ Len(objects) = 1

(***************************************************************************)
(* C8.  One object whatever the o lines: in every state of decode the      *)
(* object's name is the payload of the last o line (the default without    *)
(* one), its vertex, normal and texture lists hold the records of all v,   *)
(* vn and vt lines in file order, it has one face record per face line,    *)
(* and the smooth-shade flag and the sticky material are those the s and   *)
(* usemtl lines set; decode returns exactly that one object.  A line is of *)
(* a tag when the decoder dispatches it on that tag.                       *)
(***************************************************************************)
RecordsOf(tags, tag, Parser(_)) ==
    LET at == LinesOf(tags, tag)
    IN  [k \in 1..Cardinality(at) |-> Parser(StrStrip(lines[Kth(at, k)])).val]

\* What the completed lines make of the object.
ExpectedObject(tags) ==
    LET os == LinesOf(tags, "OBJECT")
        ss == LinesOf(tags, "SMOOTH_SHADE")
    IN  [name |-> IF os = {} THEN <<"o", "b", "j", "e", "c", "t">> ELSE Payload(lines[SetMax(os)]),
         verticies |-> RecordsOf(tags, "VERTEX", Parsers_vertexOnlyParser),
         vertexNormals |-> RecordsOf(tags, "VERTEX_NORMAL", Parsers_vertexNormalParser),
         vertexTextures |-> RecordsOf(tags, "VERTEX_TEXTURE", Parsers_vertexTextureParser),
         nFaces |-> Cardinality(LinesOf(tags, "POLYGONAL_FACE_ELEMENT")),
         hasSmoothShaded |-> ss # {},
         isSmoothShaded |-> ss # {} /\ IntVal(Payload(lines[SetMax(ss)])) = 1]

OneObject(obj, expected) ==
    /\ obj.name = expected.name
    /\ obj.verticies = expected.verticies
    /\ obj.vertexNormals = expected.vertexNormals
    /\ obj.vertexTextures = expected.vertexTextures
    /\ Len(obj.faces) = expected.nFaces
    /\ obj.hasSmoothShaded = expected.hasSmoothShaded
    /\ obj.isSmoothShaded = expected.isSmoothShaded

ShapeByRule(tok) ==
    LET parts == StrSplitOn(tok, <<"/">>)
    IN  IF StrContains(tok, <<"/", "/">>) THEN "VERTEX_AND_NORMAL"
        ELSE IF Len(parts) = 1 /\ IsInt(parts[1]) THEN "VERTEX_ONLY"
        ELSE IF Len(parts) = 2 THEN "VERTEX_AND_TEXTURE"
        ELSE IF Len(parts) = 3 THEN "VERTEX_AND_TEXTURE_AND_NORMAL"
        ELSE "ShapeException"

InferredShape(line) ==
    LET r == getFaceDataStyle(StrStrip(line)) IN IF r.err = "none" THEN r.val ELSE r.err

C9_ShapeFromFirstTokenOnly ==
    \A i \in 1..Len(lines) :
        IsFaceLine(lines[i]) => InferredShape(lines[i]) = ShapeByRule(RefTokens(lines[i])[1])

(***************************************************************************)
(* C10.  In the exported file there is one f line per face record, in      *)
(* order; the line right before a record's f line is `usemtl <material>`   *)
(* when the record carries a material, and is no usemtl line when it       *)
(* carries none; so there are as many usemtl lines as records with a       *)
(* material, none shared between consecutive records; and every f and      *)
(* usemtl line comes after every mtllib, o, v, vt, vn and s line.          *)
(***************************************************************************)
\* The first token of every line of the file (<<>> for a blank line), and the
\* numbers of the lines that start with one of `tokens`.
FileTokens == [i \in 1..Len(file) |-> FirstToken(file[i])]
FileLinesOf(first, tokens) == {i \in 1..Len(first) : first[i] \in tokens}
UseMtlString == <<"u", "s", "e", "m", "t", "l">>
SectionStrings == TagStrings \ ({FaceTagString, UseMtlString} \cup IgnoredTagStrings)

C10_UseMtlBeforeEveryFace ==
    pc = "exported" =>
        LET faces == objects[1].faces
            first == FileTokens
            fs    == FileLinesOf(first, {FaceTagString})
            us    == FileLinesOf(first, {UseMtlString})
        IN  /\ Cardinality(fs) = Len(faces)
            /\ \A k \in 1..Len(faces) :
                   LET i == Kth(fs, k)
                   IN  IF faces[k][1].linkedMaterial # None
                       THEN i - 1 \in us
                            /\ file[i - 1] = UseMtlString \o <<" ">> \o faces[k][1].linkedMaterial[1]
                       ELSE i - 1 \notin us
            /\ Cardinality(us) = Cardinality({k \in 1..Len(faces) : faces[k][1].linkedMaterial # None})
            /\ \A i \in fs \cup us : \A j \in FileLinesOf(first, SectionStrings) : j < i

\* Two consecutive face records with the same material: two usemtl lines.
C10_Witness ==
    /\ pc = "exported"
    /\ Len(objects[1].faces) = 2
    /\ objects[1].faces[1][1].linkedMaterial = Some(<<"A">>)
    /\ objects[1].faces[2][1].linkedMaterial = Some(<<"A">>)
    /\ Cardinality(FileLinesOf(FileTokens, {UseMtlString})) = 2


=============================================================================
